---- MODULE Spec2Model ----
(***************************************************************************)
(* Model of we1s_chomp/wordpress.py: get_url, get_responses (the paginated *)
(* harvester) and the state the harvester keeps while it walks the         *)
(* endpoints of a Wordpress API.                                           *)
(*                                                                         *)
(* Strings are sequences of one-character strings, so that strip, rstrip,  *)
(* concatenation, str(page) and the substring test of the stop words are   *)
(* computed as Python computes them.                                       *)
(***************************************************************************)
EXTENDS Integers, Sequences, FiniteSets, TLC

(***************************************************************************)
(* Bounds of the model.                                                    *)
(***************************************************************************)
\* Largest value the page counter takes: no page is skipped or saved,
\* and so no counter advanced, once the counter has reached it.
MaxPage == 3

\* Number of get_responses calls made with the same url_stops set.
MaxCalls == 2

(***************************************************************************)
(* Program constants.                                                      *)
(***************************************************************************)
\* "wp-json/wp/v2"
API_SUFFIX == <<"w", "p", "-", "j", "s", "o", "n", "/", "w", "p", "/", "v", "2">>

ARTICLES_PER_RESPONSE_PAGE == 10

\* page_limit = -1: no limit.
NoLimit == -1

(***************************************************************************)
(* Python string operations.                                               *)
(***************************************************************************)
Whitespace == {" ", "\t", "\n"}

\* s.rstrip(c) for a one-character c: drop every trailing c.
RECURSIVE RStrip(_, _)
RStrip(s, c) ==
    IF Len(s) > 0 /\ s[Len(s)] = c
    THEN RStrip(SubSeq(s, 1, Len(s) - 1), c)
    ELSE s

RECURSIVE RStripSpace(_)
RStripSpace(s) ==
    IF Len(s) > 0 /\ s[Len(s)] \in Whitespace
    THEN RStripSpace(SubSeq(s, 1, Len(s) - 1))
    ELSE s

RECURSIVE LStripSpace(_)
LStripSpace(s) ==
    IF Len(s) > 0 /\ s[1] \in Whitespace
    THEN LStripSpace(Tail(s))
    ELSE s

\* s.strip(): drop leading and trailing whitespace.
Strip(s) == RStripSpace(LStripSpace(s))

Digit(d) == CASE d = 0 -> "0" [] d = 1 -> "1" [] d = 2 -> "2" [] d = 3 -> "3"
              [] d = 4 -> "4" [] d = 5 -> "5" [] d = 6 -> "6" [] d = 7 -> "7"
              [] d = 8 -> "8" [] d = 9 -> "9"

\* str(n) for n >= 0, as the f-string formats the page number.
RECURSIVE IntToStr(_)
IntToStr(n) ==
    IF n < 10 THEN <<Digit(n)>>
    ELSE IntToStr(n \div 10) \o <<Digit(n % 10)>>

\* Python's `w in s` for strings: w occurs in s as a substring.
Contains(s, w) ==
    \E i \in 1..(Len(s) - Len(w) + 1) : SubSeq(s, i, i + Len(w) - 1) = w

(***************************************************************************)
(* get_url                                                                 *)
(***************************************************************************)
\* "&".join([f"search={term}", "sentence=1", f"page={page}"])
QueryString(term_, page_) ==
    <<"s", "e", "a", "r", "c", "h", "=">> \o term_
    \o <<"&">> \o <<"s", "e", "n", "t", "e", "n", "c", "e", "=", "1">>
    \o <<"&">> \o <<"p", "a", "g", "e", "=">> \o IntToStr(page_)

get_url(base_url_, term_, page_, endpoint_) ==
    RStrip(RStrip(Strip(base_url_), "/"), "?")
    \o <<"/">> \o API_SUFFIX \o <<"/">> \o endpoint_ \o <<"?">>
    \o QueryString(term_, page_)

(***************************************************************************)
(* Inputs of get_responses and responses of the collector.                 *)
(***************************************************************************)
\* "e.c/" and "e.c": a site URL with and without a trailing slash.
BaseUrls == {<<"e", ".", "c", "/">>, <<"e", ".", "c">>}

\* "cl"
Terms == {<<"c", "l">>}

Posts == <<"p", "o", "s", "t", "s">>
Pages == <<"p", "a", "g", "e", "s">>

\* ENDPOINTS = ["pages", "posts"], and a caller's one-endpoint list.
ENDPOINTS == <<Pages, Posts>>
EndpointLists == {ENDPOINTS, <<Posts>>}

PageLimits == {NoLimit} \cup (1..MaxPage)

\* Stop-word lists: none; "page=1" (in the URL of page 1 only); "page=2"
\* (in the URL of page 2 only); "posts" (in every URL of endpoint posts).
StopWordLists ==
    { <<>>,
      << <<"p", "a", "g", "e", "=", "1">> >>,
      << <<"p", "a", "g", "e", "=", "2">> >>,
      << Posts >> }

\* The links of the articles, "A" and "B": strings, as the URLs are.
LinkA == <<"A">>
LinkB == <<"B">>
Links == {LinkA, LinkB}

\* One article of a search results page, in the shape of the Wordpress API.
Item(l) == [date |-> "2019-01-01", content |-> [rendered |-> "text"],
            title |-> [rendered |-> "title"], link |-> l]

\* The lists a results page decodes to.
ItemLists == {<<>>, <<Item(LinkA)>>, <<Item(LinkB)>>, <<Item(LinkA), Item(LinkB)>>}

\* The collector fails (a network error, a timeout) and returns no text.
Failure == [kind |-> "failure", value |-> <<>>]

\* What collector(url) followed by json.loads gives: the collector fails;
\* the text is no JSON; it decodes to a value that is no list; it decodes
\* to a list.
Responses ==
    {Failure,
     [kind |-> "undecodable", value |-> <<>>],
     [kind |-> "nonlist", value |-> <<>>]}
    \cup {[kind |-> "list", value |-> v] : v \in ItemLists}

\* The caller's url_stops set before the first call: empty, or holding the
\* query URL of page 1 of endpoint posts of the site "e.c".
StopUrlSets ==
    {{}, {get_url(<<"e", ".", "c">>, <<"c", "l">>, 1, Posts)}}

\* dateparser.parse
ParseDate(s) == [parsed |-> s]

(***************************************************************************)
(* State of get_responses.                                                 *)
(***************************************************************************)
VARIABLES
    base_url, term, page_limit, url_stop_words, endpoints, \* arguments
    url_stops,      \* the caller's set, shared by the calls
    pc,             \* control point of the call
    ei,             \* index of `endpoint` in endpoints
    page, url, skipped, results,
    res,            \* the decoded page being saved
    ri,             \* index in res of the next result to save
    \* History, not read by the program:
    calls,          \* calls made so far
    emitted,        \* urls of the records appended in all the calls
    skipped0,       \* skipped when the walk of the endpoint began
    nskip,          \* pages skipped in this walk
    nfetch,         \* collector calls in this walk
    ndecoded,       \* pages of this walk that decoded as JSON
    nsaved,         \* pages of this walk saved (non-empty lists)
    firstFetched,   \* page counter at the first collector call of the walk
    lastKind,       \* kind of the last response of the call
    stops0,         \* url_stops when the call began
    seen,           \* the results of the pages this call began to save,
                    \* each with its endpoint index, page and position
    \* The other two functions of the module, each run on its own:
    probe,          \* state of a call of is_api_available
    build           \* state of a call of get_url

args == <<base_url, term, page_limit, url_stop_words, endpoints>>
locals == <<pc, ei, page, url, skipped, results, res, ri>>
history == <<calls, emitted, skipped0, nskip, nfetch, ndecoded, nsaved,
             firstFetched, lastKind, stops0, seen>>
vars == <<args, url_stops, locals, history, probe, build>>

\* Line 66-67: the URL is a stop word, or a stop word occurs in it.
StopHit(u, words) ==
    \/ \E k \in 1..Len(words) : words[k] = u
    \/ \E k \in 1..Len(words) : Contains(u, words[k])

\* Lines 92-97: the record built from one result.
Record(result) ==
    [pub_date |-> ParseDate(result.date),
     content_unscrubbed |-> result.content.rendered,
     title |-> result.title.rendered,
     url |-> result.link]

\* is_api_available and get_url before they are called.
ProbeIdle == [pc |-> "idle"]
BuildIdle == [pc |-> "idle"]

TypeOK ==
    /\ base_url \in BaseUrls /\ term \in Terms /\ page_limit \in PageLimits
    /\ url_stop_words \in StopWordLists /\ endpoints \in EndpointLists
    /\ url_stops \subseteq Links \cup UNION StopUrlSets
    /\ stops0 \subseteq Links \cup UNION StopUrlSets
    /\ pc \in {"idle", "preskip", "fetch", "save", "endwalk", "done", "raised"}
    /\ ei \in 0..Len(endpoints)
    /\ page \in 1..MaxPage /\ skipped \in Nat
    /\ res \in ItemLists /\ ri \in 1..(Len(res) + 1)
    /\ calls \in 0..MaxCalls /\ emitted \subseteq Links
    /\ nskip \in Nat /\ nfetch \in Nat /\ ndecoded \in Nat /\ nsaved \in Nat
    /\ firstFetched \in 0..MaxPage
    /\ lastKind \in {"none", "failure", "undecodable", "nonlist", "empty", "list"}

\* Before the first call: the caller holds the arguments and an empty set.
Init ==
    /\ base_url \in BaseUrls /\ term \in Terms /\ page_limit \in PageLimits
    /\ url_stop_words \in StopWordLists /\ endpoints \in EndpointLists
    /\ url_stops \in StopUrlSets
    /\ stops0 = url_stops /\ seen = <<>>
    /\ probe = ProbeIdle /\ build = BuildIdle
    /\ pc = "idle" /\ ei = 0 /\ page = 1 /\ url = <<>> /\ skipped = 0
    /\ results = <<>> /\ res = <<>> /\ ri = 1
    /\ calls = 0 /\ emitted = {} /\ skipped0 = 0 /\ nskip = 0 /\ nfetch = 0
    /\ ndecoded = 0 /\ nsaved = 0 /\ firstFetched = 0 /\ lastKind = "none"

\* Lines 60-64: the for loop binds endpoint i, page = 1 and the URL of
\* page 1; after the last endpoint, lines 105-109 log and return results.
EnterEndpoint(i, sk) ==
    IF i <= Len(endpoints)
    THEN /\ ei' = i
         /\ page' = 1
         /\ url' = get_url(base_url, term, 1, endpoints[i])
         /\ pc' = "preskip"
         /\ skipped0' = sk
         /\ nskip' = 0 /\ nfetch' = 0 /\ ndecoded' = 0 /\ nsaved' = 0
         /\ firstFetched' = 0
    ELSE /\ pc' = "done"
         /\ UNCHANGED <<ei, page, url, skipped0, nskip, nfetch, ndecoded,
                        nsaved, firstFetched>>

\* Lines 49-60: a call with the caller's arguments and url_stops set.
Call ==
    /\ pc \in {"idle", "done", "raised"}
    /\ calls < MaxCalls
    /\ calls' = calls + 1
    /\ results' = <<>>
    /\ skipped' = 0
    /\ res' = <<>> /\ ri' = 1
    /\ lastKind' = "none"
    /\ stops0' = url_stops
    /\ seen' = <<>>
    /\ EnterEndpoint(1, 0)
    /\ UNCHANGED <<args, probe, build,
                   url_stops, emitted>>

\* Lines 65-71: the URL of line 64 hits a stop word; the page counter and
\* the skip count advance, and the URL get_url builds is dropped.
PreSkipIter ==
    /\ pc = "preskip"
    /\ StopHit(url, url_stop_words)
    /\ page < MaxPage
    /\ page' = page + 1
    /\ skipped' = skipped + ARTICLES_PER_RESPONSE_PAGE
    /\ nskip' = nskip + 1
    /\ UNCHANGED <<args, probe, build, stops0, seen,
                   url_stops, pc, ei, url, results, res, ri, calls,
                   emitted, skipped0, nfetch, ndecoded, nsaved, firstFetched,
                   lastKind>>

\* Lines 65-68: the condition of the loop is false.
PreSkipExit ==
    /\ pc = "preskip"
    /\ ~StopHit(url, url_stop_words)
    /\ pc' = "fetch"
    /\ UNCHANGED <<args, probe, build,
                   url_stops, ei, page, url, skipped, results, res, ri,
                   history>>

\* Line 73.
MorePages == page_limit = NoLimit \/ page < page_limit

\* Line 73: the condition of the loop is false.
LimitReached ==
    /\ pc = "fetch"
    /\ ~MorePages
    /\ pc' = "endwalk"
    /\ UNCHANGED <<args, probe, build,
                   url_stops, ei, page, url, skipped, results, res, ri,
                   history>>

\* Kind of a response, the empty list told from the other lists.
Kind(r) == IF r.kind = "list" /\ Len(r.value) = 0 THEN "empty" ELSE r.kind

\* History of a collector call.
Fetched(kind) ==
    /\ nfetch' = nfetch + 1
    /\ firstFetched' = IF nfetch = 0 THEN page ELSE firstFetched
    /\ lastKind' = kind
    /\ ndecoded' = IF kind \in {"nonlist", "empty", "list"} THEN ndecoded + 1 ELSE ndecoded

\* Line 76: collector(url) fails; nothing in get_responses handles it.
CollectorFails ==
    /\ pc = "fetch"
    /\ MorePages
    /\ Failure \in Responses
    /\ Fetched(Failure.kind)
    /\ pc' = "raised"
    /\ UNCHANGED <<args, probe, build, stops0, seen,
                   url_stops, ei, page, url, skipped, results, res, ri,
                   calls, emitted, skipped0, nskip, nsaved>>

\* DecodeFails with `return results` in the place of `break`.
DecodeFails_Returns ==
    /\ pc = "fetch"
    /\ MorePages
    /\ Fetched("undecodable")
    /\ pc' = "done"
    /\ UNCHANGED <<args, probe, build, stops0, seen,
                   url_stops, ei, page, url, skipped, results, res, ri,
                   calls, emitted, skipped0, nskip, nsaved>>

\* Lines 76-81: json.loads raises JSONDecodeError; break.
DecodeFails ==
    /\ pc = "fetch"
    /\ MorePages
    /\ Fetched("undecodable")
    /\ pc' = "endwalk"
    /\ UNCHANGED <<args, probe, build, stops0, seen,
                   url_stops, ei, page, url, skipped, results, res, ri,
                   calls, emitted, skipped0, nskip, nsaved>>

\* EndOfResults counting the page as skipped.
EndOfResults_CountsSkip ==
    /\ pc = "fetch"
    /\ MorePages
    /\ \E r \in Responses :
        /\ r.kind = "nonlist" \/ (r.kind = "list" /\ ~(Len(r.value) > 0))
        /\ Fetched(Kind(r))
    /\ pc' = "endwalk"
    /\ skipped' = skipped + ARTICLES_PER_RESPONSE_PAGE
    /\ UNCHANGED <<args, probe, build, stops0, seen,
                   url_stops, ei, page, url, results, res, ri,
                   calls, emitted, skipped0, nskip, nsaved>>

\* EndOfResults advancing the page counter before the break.
EndOfResults_AdvancesPage ==
    /\ pc = "fetch"
    /\ MorePages
    /\ \E r \in Responses :
        /\ r.kind = "nonlist" \/ (r.kind = "list" /\ ~(Len(r.value) > 0))
        /\ Fetched(Kind(r))
    /\ pc' = "endwalk"
    /\ page' = page + 1
    /\ UNCHANGED <<args, probe, build, stops0, seen,
                   url_stops, ei, url, skipped, results, res, ri,
                   calls, emitted, skipped0, nskip, nsaved>>

\* Lines 76-87: the page decodes to no list, or to an empty list; break.
EndOfResults ==
    /\ pc = "fetch"
    /\ MorePages
    /\ \E r \in Responses :
        /\ r.kind = "nonlist" \/ (r.kind = "list" /\ ~(Len(r.value) > 0))
        /\ Fetched(Kind(r))
    /\ pc' = "endwalk"
    /\ UNCHANGED <<args, probe, build, stops0, seen,
                   url_stops, ei, page, url, skipped, results, res, ri,
                   calls, emitted, skipped0, nskip, nsaved>>

\* Lines 76-90: the page decodes to a non-empty list, the loop of line 90
\* begins.
PageOfResults ==
    /\ pc = "fetch"
    /\ MorePages
    /\ page < MaxPage
    /\ \E r \in Responses :
        /\ r.kind = "list" /\ Len(r.value) > 0
        /\ Fetched(Kind(r))
        /\ res' = r.value
        /\ seen' = seen \o [k \in 1..Len(r.value) |->
                              [e |-> ei, p |-> page, k |-> k, item |-> r.value[k]]]
    /\ ri' = 1
    /\ pc' = "save"
    /\ UNCHANGED <<args, probe, build, stops0,
                   url_stops, ei, page, url, skipped, results, calls,
                   emitted, skipped0, nskip, nsaved>>

\* SaveResult without line 99, url_stops.add.
SaveResult_NoAdd ==
    /\ pc = "save"
    /\ ri <= Len(res)
    /\ results' = Append(results, Record(res[ri]))
    /\ emitted' = emitted \cup {res[ri].link}
    /\ ri' = ri + 1
    /\ UNCHANGED <<args, probe, build, stops0, seen,
                   url_stops, pc, ei, page, url, skipped, res, calls,
                   skipped0, nskip, nfetch, ndecoded, nsaved, firstFetched,
                   lastKind>>

\* SaveResult leaving out a result whose link is in url_stops.
SaveResult_SkipsSeen ==
    /\ pc = "save"
    /\ ri <= Len(res)
    /\ results' = IF res[ri].link \in url_stops THEN results
                  ELSE Append(results, Record(res[ri]))
    /\ url_stops' = url_stops \cup {res[ri].link}
    /\ emitted' = emitted \cup {res[ri].link}
    /\ ri' = ri + 1
    /\ UNCHANGED <<args, probe, build, stops0, seen,
                   pc, ei, page, url, skipped, res, calls, skipped0,
                   nskip, nfetch, ndecoded, nsaved, firstFetched, lastKind>>

\* SaveResult adding the query URL, not the link, to url_stops.
SaveResult_AddsQueryUrl ==
    /\ pc = "save"
    /\ ri <= Len(res)
    /\ results' = Append(results, Record(res[ri]))
    /\ url_stops' = url_stops \cup {url}
    /\ emitted' = emitted \cup {res[ri].link}
    /\ ri' = ri + 1
    /\ UNCHANGED <<args, probe, build, stops0, seen,
                   pc, ei, page, url, skipped, res, calls, skipped0,
                   nskip, nfetch, ndecoded, nsaved, firstFetched, lastKind>>

\* Lines 90-99: one result is appended and its link added to url_stops.
SaveResult ==
    /\ pc = "save"
    /\ ri <= Len(res)
    /\ results' = Append(results, Record(res[ri]))
    /\ url_stops' = url_stops \cup {res[ri].link}
    /\ emitted' = emitted \cup {res[ri].link}
    /\ ri' = ri + 1
    /\ UNCHANGED <<args, probe, build, stops0, seen,
                   pc, ei, page, url, skipped, res, calls, skipped0,
                   nskip, nfetch, ndecoded, nsaved, firstFetched, lastKind>>

\* NextPage advancing the page counter by two.
NextPage_SkipsPage ==
    /\ pc = "save"
    /\ ri > Len(res)
    /\ page' = page + 2
    /\ url' = get_url(base_url, term, page', endpoints[ei])
    /\ nsaved' = nsaved + 1
    /\ pc' = "fetch"
    /\ UNCHANGED <<args, probe, build, stops0, seen,
                   url_stops, ei, skipped, results, res, ri, calls,
                   emitted, skipped0, nskip, nfetch, ndecoded, firstFetched,
                   lastKind>>

\* NextPage without line 103: the URL of the page before is kept.
NextPage_StaleUrl ==
    /\ pc = "save"
    /\ ri > Len(res)
    /\ page' = page + 1
    /\ nsaved' = nsaved + 1
    /\ pc' = "fetch"
    /\ UNCHANGED <<args, probe, build, stops0, seen,
                   url_stops, ei, url, skipped, results, res, ri, calls,
                   emitted, skipped0, nskip, nfetch, ndecoded, firstFetched,
                   lastKind>>

\* Lines 101-103: every result of the page is saved; the page counter
\* advances and the URL of the new page is built.
NextPage ==
    /\ pc = "save"
    /\ ri > Len(res)
    /\ page' = page + 1
    /\ url' = get_url(base_url, term, page', endpoints[ei])
    /\ nsaved' = nsaved + 1
    /\ pc' = "fetch"
    /\ UNCHANGED <<args, probe, build, stops0, seen,
                   url_stops, ei, skipped, results, res, ri, calls,
                   emitted, skipped0, nskip, nfetch, ndecoded, firstFetched,
                   lastKind>>

\* Line 60: the walk of the endpoint is over; the for loop goes on to the
\* next endpoint, or the call returns results (lines 105-109).
NextEndpoint ==
    /\ pc = "endwalk"
    /\ EnterEndpoint(ei + 1, skipped)
    /\ UNCHANGED <<args, probe, build, stops0, seen,
                   url_stops, skipped, results, res, ri, calls, emitted,
                   lastKind>>

Next ==
    \/ Call
    \/ PreSkipIter
    \/ PreSkipExit
    \/ LimitReached
    \/ CollectorFails
    \/ DecodeFails
    \/ EndOfResults
    \/ PageOfResults
    \/ SaveResult
    \/ NextPage
    \/ NextEndpoint

Spec == Init /\ [][Next]_vars

\* The steps of a call: the interpreter runs a call that has begun until
\* it returns or raises; whether the caller calls again is its choice.
Step ==
    \/ PreSkipIter \/ PreSkipExit \/ LimitReached \/ CollectorFails
    \/ DecodeFails \/ EndOfResults \/ PageOfResults \/ SaveResult
    \/ NextPage \/ NextEndpoint

FairSpec == Init /\ [][Next]_vars /\ WF_vars(Step)

(***************************************************************************)
(* is_api_available                                                        *)
(*                                                                         *)
(* A JSON value of the API description is a record with its type t and     *)
(* its content: "absent" is a key that is not there, "null" a value of a   *)
(* type the code does not expect (None: no subscript, no `in`, no          *)
(* iteration, no keys()).                                                  *)
(***************************************************************************)
\* routes[...]["methods"] and e["methods"]: a list of method names.
NoMethods == [t |-> "absent", v |-> <<>>]
NullMethods == [t |-> "null", v |-> <<>>]
Methods(ms) == [t |-> "list", v |-> ms]
MethodsValues ==
    {NoMethods, NullMethods, Methods(<<"GET">>), Methods(<<"POST">>),
     Methods(<<"POST", "GET">>)}

\* e["args"]: an object, of which the keys matter.
NoArgs == [t |-> "absent", v |-> {}]
NullArgs == [t |-> "null", v |-> {}]
Args(ks) == [t |-> "object", v |-> ks]

\* One entry of routes[...]["endpoints"].
Sub(m, a) == [methods |-> m, args |-> a]
GetSearch == Sub(Methods(<<"GET">>), Args({"search", "page"}))
GetNoSearch == Sub(Methods(<<"GET">>), Args({"page"}))
PostSearch == Sub(Methods(<<"POST">>), Args({"search"}))

\* routes[...]["endpoints"]: a list of entries.
NoSubs == [t |-> "absent", v |-> <<>>]
NullSubs == [t |-> "null", v |-> <<>>]
Subs(es) == [t |-> "list", v |-> es]
SubsValues ==
    {NoSubs, NullSubs, Subs(<<>>),
     Subs(<<GetSearch>>), Subs(<<GetNoSearch>>), Subs(<<PostSearch>>),
     Subs(<<PostSearch, GetSearch>>),
     Subs(<<GetNoSearch, GetSearch>>), Subs(<<GetSearch, GetNoSearch>>),
     Subs(<<Sub(Methods(<<"GET">>), NoArgs)>>),
     Subs(<<Sub(Methods(<<"GET">>), NullArgs)>>),
     Subs(<<Sub(NoMethods, Args({"search"})), GetSearch>>),
     Subs(<<Sub(NullMethods, Args({"search"})), GetSearch>>)}

\* routes["/wp/v2/<endpoint>"].
NoRoute == [t |-> "absent", methods |-> NoMethods, endpoints |-> NoSubs]
NullRoute == [t |-> "null", methods |-> NoMethods, endpoints |-> NoSubs]
Route(m, es) == [t |-> "object", methods |-> m, endpoints |-> es]
RouteValues ==
    {NoRoute, NullRoute}
    \cup {Route(m, es) : m \in MethodsValues, es \in SubsValues}

\* "/wp/v2/" + endpoint
RoutePath(endpoint_) == <<"/", "w", "p", "/", "v", "2", "/">> \o endpoint_
RoutePaths == {RoutePath(Pages), RoutePath(Posts)}

\* The text the collector returns: no JSON; JSON that is no object; an
\* object without "routes"; an object whose "routes" is no object; an
\* object with the routes of pages and posts.
Doc(t_, r_) == [t |-> t_, routes |-> r_]
NoRoutes == [q \in RoutePaths |-> NoRoute]
Documents ==
    {Doc(t_, NoRoutes) :
        t_ \in {"undecodable", "null", "noroutes", "nullroutes"}}
    \cup {Doc("object", r_) : r_ \in [RoutePaths -> RouteValues]}

\* The endpoints argument of is_api_available.
ProbeEndpointLists == {ENDPOINTS, <<Posts, Pages>>, <<Posts>>}

\* Python's `"GET" in ms` for a list ms.
InList(x, ms) == \E k \in 1..Len(ms) : ms[k] = x

\* Line 170, next(e for e in routes["endpoints"] if "GET" in e["methods"]):
\* the index of the first entry from k on that lists GET, or the exception
\* the generator ends with.
RECURSIVE FirstGet(_, _)
FirstGet(es, k) ==
    IF k > Len(es) THEN [exc |-> "StopIteration", at |-> 0]
    ELSE IF es[k].methods.t = "absent" THEN [exc |-> "KeyError", at |-> 0]
    ELSE IF es[k].methods.t = "null" THEN [exc |-> "TypeError", at |-> 0]
    ELSE IF InList("GET", es[k].methods.v) THEN [exc |-> "none", at |-> k]
    ELSE FirstGet(es, k + 1)

\* FirstGetSub taking the last entry that lists GET.
RECURSIVE LastGet(_, _)
LastGet(es, k) ==
    IF k < 1 THEN [exc |-> "StopIteration", at |-> 0]
    ELSE IF es[k].methods.t = "list" /\ InList("GET", es[k].methods.v)
         THEN [exc |-> "none", at |-> k]
    ELSE LastGet(es, k - 1)

FirstGetSub_Last(es) == LastGet(es, Len(es))

\* Line 170: the generator starts at the first entry.
FirstGetSub(es) == FirstGet(es, 1)

\* Lines 162-173, the body of the try for one endpoint: "pass" when both
\* checks succeed, "false" at a return False of lines 167 and 173, else the
\* exception raised.
CheckEndpoint(doc, endpoint_) ==
    LET route == doc.routes[RoutePath(endpoint_)]
        first == FirstGetSub(route.endpoints.v)
    IN  IF doc.t = "undecodable" THEN "JSONDecodeError"
        ELSE IF doc.t = "null" THEN "TypeError"
        ELSE IF doc.t = "noroutes" THEN "KeyError"
        ELSE IF doc.t = "nullroutes" THEN "TypeError"
        ELSE IF route.t = "absent" THEN "KeyError"
        ELSE IF route.t = "null" THEN "TypeError"
        ELSE IF route.methods.t = "absent" THEN "KeyError"
        ELSE IF route.methods.t = "null" THEN "TypeError"
        ELSE IF ~InList("GET", route.methods.v) THEN "false"
        ELSE IF route.endpoints.t = "absent" THEN "KeyError"
        ELSE IF route.endpoints.t = "null" THEN "TypeError"
        ELSE IF first.exc # "none" THEN first.exc
        ELSE IF route.endpoints.v[first.at].args.t = "absent" THEN "KeyError"
        ELSE IF route.endpoints.v[first.at].args.t = "null"
             THEN "AttributeError"
        ELSE IF "search" \notin route.endpoints.v[first.at].args.v
             THEN "false"
        ELSE "pass"

\* Line 175: the exceptions the except clause catches.
Caught == {"AttributeError", "KeyError", "JSONDecodeError"}

\* Line 156: f"{url}/{API_SUFFIX}"
ApiUrl(u) == u \o <<"/">> \o API_SUFFIX

ProbeState(pc_, doc_, es_, i_, result_, exc_, api_url_) ==
    [pc |-> pc_, doc |-> doc_, endpoints |-> es_, i |-> i_,
     result |-> result_, exc |-> exc_, api_url |-> api_url_]

\* A call of is_api_available with a site URL and a list of endpoints; doc
\* is the text the collector is going to return.
ProbeStart(doc_, es_) ==
    ProbeState("fetch", doc_, es_, 0, "none", "none",
               ApiUrl(<<"e", ".", "c">>))

\* The functions of the module that are not running.
HarvestAtRest ==
    /\ base_url = <<"e", ".", "c">> /\ term = <<"c", "l">>
    /\ page_limit = NoLimit /\ url_stop_words = <<>> /\ endpoints = ENDPOINTS
    /\ url_stops = {} /\ stops0 = {} /\ seen = <<>>
    /\ pc = "idle" /\ ei = 0 /\ page = 1 /\ url = <<>> /\ skipped = 0
    /\ results = <<>> /\ res = <<>> /\ ri = 1
    /\ calls = 0 /\ emitted = {} /\ skipped0 = 0 /\ nskip = 0 /\ nfetch = 0
    /\ ndecoded = 0 /\ nsaved = 0 /\ firstFetched = 0 /\ lastKind = "none"

ProbeInit ==
    /\ HarvestAtRest
    /\ build = BuildIdle
    /\ \E d \in Documents, es \in ProbeEndpointLists :
        probe = ProbeStart(d, es)

harvest == <<args, url_stops, locals, history>>

\* Line 157: the collector fails; the call is outside the try.
ProbeCollectorFails ==
    /\ probe.pc = "fetch"
    /\ probe' = [probe EXCEPT !.pc = "raised", !.exc = Failure.kind]
    /\ UNCHANGED <<harvest, build>>

\* Lines 156-160: the collector returns the text; the loop begins.
ProbeFetch ==
    /\ probe.pc = "fetch"
    /\ probe' = [probe EXCEPT !.pc = "loop", !.i = 1]
    /\ UNCHANGED <<harvest, build>>

\* ProbeAfter returning True as soon as one endpoint passes.
ProbeAfter_TrueOnFirstPass(outcome) ==
    IF outcome = "pass"
    THEN [probe EXCEPT !.pc = "done", !.result = "True"]
    ELSE IF outcome = "false" \/ outcome \in Caught
    THEN [probe EXCEPT !.pc = "done", !.result = "False"]
    ELSE [probe EXCEPT !.pc = "raised", !.exc = outcome]

\* What lines 161-177 do with the outcome of the try body.
ProbeAfter(outcome) ==
    IF outcome = "pass"
    THEN [probe EXCEPT !.i = probe.i + 1]
    ELSE IF outcome = "false" \/ outcome \in Caught
    THEN [probe EXCEPT !.pc = "done", !.result = "False"]
    ELSE [probe EXCEPT !.pc = "raised", !.exc = outcome]

\* Lines 160-177: one iteration of the loop over the endpoints.
ProbeCheck ==
    /\ probe.pc = "loop"
    /\ probe.i <= Len(probe.endpoints)
    /\ probe' = ProbeAfter(CheckEndpoint(probe.doc, probe.endpoints[probe.i]))
    /\ UNCHANGED <<harvest, build>>

\* Lines 179-180: every endpoint passed.
ProbeReturnsTrue ==
    /\ probe.pc = "loop"
    /\ probe.i > Len(probe.endpoints)
    /\ probe' = [probe EXCEPT !.pc = "done", !.result = "True"]
    /\ UNCHANGED <<harvest, build>>

ProbeNext ==
    \/ ProbeCollectorFails
    \/ ProbeFetch
    \/ ProbeCheck
    \/ ProbeReturnsTrue

ProbeSpec == ProbeInit /\ [][ProbeNext]_vars

(***************************************************************************)
(* get_url on its own: one call with base + suffix and one with base.      *)
(***************************************************************************)
\* Longest suffix put after the base URL.
MaxSuffix == 2

\* "e.c" and "h": base URLs that end in no whitespace, "/" or "?".
BuildBases == {<<"e", ".", "c">>, <<"h">>}

SuffixChars == {" ", "/", "?"}

Suffixes == UNION {[1..n -> SuffixChars] : n \in 0..MaxSuffix}

BuildInit ==
    /\ HarvestAtRest
    /\ probe = ProbeIdle
    /\ \E b \in BuildBases, x \in Suffixes, t \in Terms, p \in 1..2,
          e \in {Pages, Posts} :
        build = [pc |-> "call", base |-> b, suffix |-> x, term |-> t,
                 page |-> p, endpoint |-> e, out |-> <<>>, plain |-> <<>>]

\* Lines 124-130, for the base URL with the suffix and for the base URL.
BuildCall ==
    /\ build.pc = "call"
    /\ build' = [build EXCEPT
          !.pc = "done",
          !.out = get_url(build.base \o build.suffix, build.term,
                          build.page, build.endpoint),
          !.plain = get_url(build.base, build.term, build.page,
                            build.endpoint)]
    /\ UNCHANGED <<harvest, probe>>

BuildNext == BuildCall

BuildSpec == BuildInit /\ [][BuildNext]_vars

(***************************************************************************)
(* Properties.                                                             *)
(***************************************************************************)
InCall == pc \in {"preskip", "fetch", "save", "endwalk"}
Ended == pc \in {"done", "raised"}

\* The query URL of a page of the endpoint being walked.
PageUrl(p) == get_url(base_url, term, p, endpoints[ei])

\* A step that calls the collector.
FetchStep == nfetch' = nfetch + 1

IsPrefix(s, t) == Len(s) <= Len(t) /\ SubSeq(t, 1, Len(s)) = s

Urls(rs) == {rs[i].url : i \in 1..Len(rs)}

GoesOn ==
    /\ results' = results /\ url_stops' = url_stops
    /\ IF ei < Len(endpoints)
       THEN /\ pc' = "preskip" /\ ei' = ei + 1 /\ page' = 1 /\ nfetch' = 0
            /\ url' = get_url(base_url, term, 1, endpoints[ei + 1])
       ELSE pc' = "done"

Scenario ==
    /\ Len(endpoints) = 1 /\ url_stop_words = <<>>
    /\ pc = "endwalk"
    /\ nfetch = 2 /\ lastKind = "empty"
    /\ results = <<Record(Item(LinkA)), Record(Item(LinkB))>>

Before(a, b) ==
    \/ a.e < b.e
    \/ a.e = b.e /\ a.p < b.p
    \/ a.e = b.e /\ a.p = b.p /\ a.k < b.k

RouteOf(doc, endpoint_) == doc.routes[RoutePath(endpoint_)]

ListsGet(x) == x.methods.t = "list" /\ \E k \in 1..Len(x.methods.v) : x.methods.v[k] = "GET"

RouteListsGet(doc, endpoint_) ==
    /\ doc.t = "object"
    /\ RouteOf(doc, endpoint_).t = "object"
    /\ ListsGet(RouteOf(doc, endpoint_))

HasSearch(sub) == sub.args.t = "object" /\ "search" \in sub.args.v

\* The first entry of the route that lists GET is entry k; the entries
\* before it have a list of methods.
FirstGetIs(doc, endpoint_, k) ==
    LET es == RouteOf(doc, endpoint_).endpoints
    IN  /\ es.t = "list"
        /\ k \in 1..Len(es.v)
        /\ ListsGet(es.v[k])
        /\ \A j \in 1..(k - 1) : es.v[j].methods.t = "list" /\ ~ListsGet(es.v[j])

\* Some entry of the route lists GET and has a search argument.
SomeGetHasSearch(doc, endpoint_) ==
    LET es == RouteOf(doc, endpoint_).endpoints
    IN  /\ es.t = "list"
        /\ \E k \in 1..Len(es.v) : ListsGet(es.v[k]) /\ HasSearch(es.v[k])

\* The endpoint passes both checks.
PassesChecks(doc, endpoint_) ==
    /\ RouteListsGet(doc, endpoint_)
    /\ \E k \in 1..Len(RouteOf(doc, endpoint_).endpoints.v) :
        FirstGetIs(doc, endpoint_, k)
        /\ HasSearch(RouteOf(doc, endpoint_).endpoints.v[k])

\* The endpoint fails one of the two checks: its route has a list of
\* methods without GET, or its GET entry has arguments without search.
FailsACheck(doc, endpoint_) ==
    /\ doc.t = "object"
    /\ RouteOf(doc, endpoint_).t = "object"
    /\ RouteOf(doc, endpoint_).methods.t = "list"
    /\ \/ ~ListsGet(RouteOf(doc, endpoint_))
       \/ \E k \in 1..Len(RouteOf(doc, endpoint_).endpoints.v) :
            /\ FirstGetIs(doc, endpoint_, k)
            /\ RouteOf(doc, endpoint_).endpoints.v[k].args.t = "object"
            /\ ~HasSearch(RouteOf(doc, endpoint_).endpoints.v[k])

\* The call got the text of the description from the collector and ended.
ProbeEnded ==
    /\ probe.pc \in {"done", "raised"}
    /\ probe.exc # Failure.kind

\* C12: is_api_available returns True only if the route of every endpoint
\* asked for lists GET and has a GET entry with a search argument; and
\* when one endpoint, at any position, fails a check while all the others
\* pass, it returns False.
C12_ProbeIsConjunctive ==
    ProbeEnded =>
        /\ probe.result = "True" =>
            \A i \in 1..Len(probe.endpoints) :
                /\ RouteListsGet(probe.doc, probe.endpoints[i])
                /\ SomeGetHasSearch(probe.doc, probe.endpoints[i])
        /\ (\E i \in 1..Len(probe.endpoints) :
                /\ FailsACheck(probe.doc, probe.endpoints[i])
                /\ \A j \in 1..Len(probe.endpoints) :
                    j # i => PassesChecks(probe.doc, probe.endpoints[j]))
            => probe.pc = "done" /\ probe.result = "False"

\* C12 witness: of two endpoints the first passes and the second fails a
\* check, and the call returned False.
C12_Witness ==
    /\ probe.pc = "done" /\ probe.result = "False"
    /\ Len(probe.endpoints) = 2
    /\ PassesChecks(probe.doc, probe.endpoints[1])
    /\ FailsACheck(probe.doc, probe.endpoints[2])

\* C13: whatever text the collector returns, is_api_available does not
\* raise: the only exception a call ends with is the collector's own.
C13_ProbeNeverRaises ==
    probe.pc = "raised" => probe.exc = Failure.kind

\* C14: get_url gives the same URL for a base URL followed by whitespace,
\* "/" and "?" in any order as for the base URL.
C14_SuffixIsTrimmed ==
    build.pc = "done" => build.out = build.plain

C18_FirstGetEntryDecides ==
    (/\ ProbeEnded
     /\ \E i \in 1..Len(probe.endpoints) :
        /\ RouteListsGet(probe.doc, probe.endpoints[i])
        /\ \E k \in 1..Len(RouteOf(probe.doc, probe.endpoints[i]).endpoints.v) :
            /\ FirstGetIs(probe.doc, probe.endpoints[i], k)
            /\ RouteOf(probe.doc, probe.endpoints[i]).endpoints.v[k].args.t = "object"
            /\ ~HasSearch(RouteOf(probe.doc, probe.endpoints[i]).endpoints.v[k])
        /\ \A j \in 1..(i - 1) : PassesChecks(probe.doc, probe.endpoints[j]))
    => probe.pc = "done" /\ probe.result = "False"

\* C18 witness: the route of the only endpoint has a first GET entry
\* without search and a later GET entry with search; the call returned
\* False.
C18_Witness ==
    /\ probe.pc = "done" /\ probe.result = "False"
    /\ probe.endpoints = <<Posts>>
    /\ RouteListsGet(probe.doc, Posts)
    /\ FirstGetIs(probe.doc, Posts, 1)
    /\ ~HasSearch(RouteOf(probe.doc, Posts).endpoints.v[1])
    /\ SomeGetHasSearch(probe.doc, Posts)

NoFetchAfterSkip == pc \in {"fetch", "save", "endwalk"} => nskip = 0

====
